---- MODULE Spec2Model ----
(***************************************************************************)
(* Foreign Arrivals Dashboard (foreign_arrivals_app.py).                   *)
(*                                                                         *)
(* The Streamlit script is re-executed top to bottom on every user         *)
(* interaction.  One execution is modelled in two steps: the part that     *)
(* loads the data, reads the widgets and builds filtered_data_df (lines    *)
(* 34-95), and the part that computes the five aggregation views (lines    *)
(* 97-158).  Data frames are sequences of rows plus a set of column names. *)
(***************************************************************************)
EXTENDS Integers, Sequences, FiniteSets

(* ------------------------------ bounds --------------------------------- *)
\* rows of data/foreign_arrivals.csv
MaxRecords == 2
\* rows of data/poe.csv
MaxPoeRows == 2
\* largest value of the arrivals column
MaxArrivals == 1
\* widget changes the user makes in one session
MaxInteractions == 1

\* the values the csv cells are drawn from
Countries == {"Japan", "China"}
PoeIds == {"KLIA", "JB"}
\* a csv date cell "y-m-d", split into its three numbers
Dates == {<<2020, 1, 15>>, <<2021, 3, 10>>, <<2021, 1, 5>>}
Lats == {2}
Longs == {101}

SeqsUpTo(S, n) == UNION {[1..k -> S] : k \in 0..n}

ArrivalRecord == [date : Dates, poe : PoeIds, country : Countries, arrivals : 0..MaxArrivals]
PoeMetadata == [poe : PoeIds, lat : Lats, long : Longs]

(* --------------------------- program values ---------------------------- *)
\* the sentinel option inserted in front of both option lists
SelectAll == "Select All"
\* a cell of a frame that may be missing holds <<v>>, and a missing one is NaN
NaN == <<>>
Present(v) == <<v>>
\* st.cache_data has no entry for get_data yet
NoCache == "NoCache"
\* a variable the script has not assigned yet
Unset == "Unset"

VARIABLES
    arrivals_csv,        \* rows of data/foreign_arrivals.csv
    poe_csv,             \* rows of data/poe.csv
    cache,               \* the st.cache_data entry of get_data
    loads,               \* how many times the body of get_data has run
    data_df,             \* rows of the joined frame
    min_year, max_year,
    countries, poes,     \* the option lists, "Select All" first
    from_year, to_year,  \* what st.slider returned
    picked_countries,    \* what st.multiselect returned
    picked_poes,
    selected_countries,  \* after the "Select All" handling
    selected_poes,
    filtered_data_df,    \* [columns, rows]
    summary, no_data,    \* yearly totals and the branch taken at line 107
    trend,               \* year x country table
    data_for_map,        \* distinct lat/lon points
    total_arrivals_by_poe,
    monthly_arrivals,
    pc,                  \* position of the script
    interactions         \* widget changes the user has made in this session

files == <<arrivals_csv, poe_csv>>
loader == <<cache, loads, data_df>>
widgets == <<min_year, max_year, countries, poes, from_year, to_year,
             picked_countries, picked_poes, selected_countries, selected_poes>>
views == <<summary, no_data, trend, data_for_map, total_arrivals_by_poe, monthly_arrivals>>
vars == <<files, loader, widgets, filtered_data_df, views, pc, interactions>>

(* ------------------------------ get_data ------------------------------- *)
\* pd.to_datetime on one cell
to_datetime(cell) == [year |-> cell[1], month |-> cell[2], day |-> cell[3]]

\* lines 25-26: parse the date column and derive the year column
Preprocess(rows) ==
    [i \in 1..Len(rows) |->
        [date |-> to_datetime(rows[i].date), poe |-> rows[i].poe,
         country |-> rows[i].country, arrivals |-> rows[i].arrivals,
         year |-> to_datetime(rows[i].date).year]]

MatchesOf(r, right) == SelectSeq(right, LAMBDA p : p.poe = r.poe)

Joined(r, lat, long) ==
    [date |-> r.date, poe |-> r.poe, country |-> r.country, arrivals |-> r.arrivals,
     year |-> r.year, lat |-> lat, long |-> long]

\* line 29: left.merge(right, on='poe', how='left'): every left row, in order,
\* once per matching right row, and once with missing cells when none matches
RECURSIVE merge(_, _)
merge(left, right) ==
    IF left = <<>> THEN <<>>
    ELSE LET r == Head(left)
             m == MatchesOf(r, right)
             out == IF m = <<>> THEN <<Joined(r, NaN, NaN)>>
                    ELSE [k \in 1..Len(m) |-> Joined(r, Present(m[k].lat), Present(m[k].long))]
         IN  out \o merge(Tail(left), right)

\* the body of get_data
get_data == merge(Preprocess(arrivals_csv), poe_csv)

DataColumns == {"date", "poe", "country", "arrivals", "year", "lat", "long"}

\* line 14: @st.cache_data returns the stored result when there is one
CacheHit_never(c) == FALSE
CacheHit(c) == c # NoCache

(* ------------------------------ widgets -------------------------------- *)
Column(rows, Get(_)) == {Get(rows[i]) : i \in 1..Len(rows)}

SetMin(S) == CHOOSE x \in S : \A y \in S : x <= y
SetMax(S) == CHOOSE x \in S : \A y \in S : x >= y

\* lines 51-52
MinYear(rows) == SetMin(Column(rows, LAMBDA r : r.year))
MaxYear(rows) == SetMax(Column(rows, LAMBDA r : r.year))

\* Series.unique().tolist(): the distinct values in order of first appearance
RECURSIVE unique(_)
unique(s) ==
    IF s = <<>> THEN <<>>
    ELSE LET rest == unique(SubSeq(s, 1, Len(s) - 1))
             x == s[Len(s)]
         IN  IF \E i \in 1..Len(rest) : rest[i] = x THEN rest ELSE Append(rest, x)

\* lines 62-67
CountryOptions(rows) == <<SelectAll>> \o unique([i \in 1..Len(rows) |-> rows[i].country])
PoeOptions(rows) == <<SelectAll>> \o unique([i \in 1..Len(rows) |-> rows[i].poe])

Range(s) == {s[i] : i \in 1..Len(s)}

\* st.slider with a pair as value: the pairs a user can set
SliderValues_unordered(lo, hi) == (lo..hi) \X (lo..hi)
SliderValues(lo, hi) == {p \in (lo..hi) \X (lo..hi) : p[1] <= p[2]}

\* st.multiselect: any set of options
MultiselectValues(options) == SUBSET Range(options)

\* lines 84-87
Resolve_asPicked(picked, options) == picked
Resolve(picked, options) ==
    IF SelectAll \in picked THEN Range(Tail(options)) ELSE picked

(* ------------------------------- filter -------------------------------- *)
\* Series.isin
isin_emptyIsAll(x, values) == values = {} \/ x \in values
isin(x, values) == x \in values

\* lines 90-95: the boolean mask of one row
Mask_exclusiveTo(r, lo, hi, cs, ps) ==
    isin(r.country, cs) /\ isin(r.poe, ps) /\ r.year >= lo /\ r.year < hi
Mask_noFrom(r, lo, hi, cs, ps) ==
    isin(r.country, cs) /\ isin(r.poe, ps) /\ r.year <= hi
Mask(r, lo, hi, cs, ps) ==
    isin(r.country, cs) /\ isin(r.poe, ps) /\ r.year >= lo /\ r.year <= hi

\* data_df[mask]: the rows whose mask is set, in order
RECURSIVE FilterRows(_, _, _, _, _)
FilterRows(rows, lo, hi, cs, ps) ==
    IF rows = <<>> THEN <<>>
    ELSE LET rest == FilterRows(Tail(rows), lo, hi, cs, ps)
         IN  IF Mask(Head(rows), lo, hi, cs, ps) THEN <<Head(rows)>> \o rest ELSE rest

(* ---------------------------- aggregations ----------------------------- *)
\* ['arrivals'].sum() of a group
RECURSIVE SumArrivals(_)
SumArrivals_count(rows) == Len(rows)
SumArrivals(rows) ==
    IF rows = <<>> THEN 0 ELSE Head(rows).arrivals + SumArrivals(Tail(rows))

\* groupby(key)['arrivals'].sum(): one entry per key that occurs
GroupSum(rows, Key(_)) ==
    [k \in Column(rows, Key) |-> SumArrivals(SelectSeq(rows, LAMBDA r : Key(r) = k))]

\* Series.unstack() of a series indexed by pairs: a table whose missing cells are NaN
CellOf_zero(s, a, b) == IF <<a, b>> \in DOMAIN s THEN Present(s[<<a, b>>]) ELSE Present(0)
CellOf(s, a, b) == IF <<a, b>> \in DOMAIN s THEN Present(s[<<a, b>>]) ELSE NaN

unstack(s) ==
    LET idx == {p[1] : p \in DOMAIN s}
        cols == {p[2] : p \in DOMAIN s}
    IN  [index |-> idx, columns |-> cols,
         cell |-> [p \in idx \X cols |-> CellOf(s, p[1], p[2])]]

\* lines 101-104
Summary(rows, year) ==
    GroupSum(SelectSeq(rows, LAMBDA r : r.year = year), LAMBDA r : r.country)

\* line 125
Trend(rows) == unstack(GroupSum(rows, LAMBDA r : <<r.year, r.country>>))

\* lines 133-134: [['lat','long']].dropna().drop_duplicates(), 'long' renamed
RECURSIVE MapPoints(_)
MapPoints(rows) ==
    IF rows = <<>> THEN <<>>
    ELSE LET rest == MapPoints(SubSeq(rows, 1, Len(rows) - 1))
             r == rows[Len(rows)]
             p == [lat |-> r.lat, lon |-> r.long]
         IN  IF r.lat = NaN \/ r.long = NaN \/ (\E i \in 1..Len(rest) : rest[i] = p)
             THEN rest ELSE Append(rest, p)

\* line 145
TotalByPoe(rows) == unstack(GroupSum(rows, LAMBDA r : <<r.poe, r.country>>))

\* line 154: filtered_data_df['month'] = filtered_data_df['date'].dt.month
WithMonth(df) ==
    [columns |-> df.columns \cup {"month"},
     rows |-> [i \in 1..Len(df.rows) |->
        [date |-> df.rows[i].date, poe |-> df.rows[i].poe, country |-> df.rows[i].country,
         arrivals |-> df.rows[i].arrivals, year |-> df.rows[i].year,
         lat |-> df.rows[i].lat, long |-> df.rows[i].long,
         month |-> df.rows[i].date.month]]]

\* line 155
Monthly(rows) == unstack(GroupSum(rows, LAMBDA r : <<r.month, r.country>>))

(* ------------------------------- actions ------------------------------- *)
\* the process has started and no script run has happened yet
Init ==
    /\ arrivals_csv \in SeqsUpTo(ArrivalRecord, MaxRecords) \ {<<>>}
    /\ poe_csv \in SeqsUpTo(PoeMetadata, MaxPoeRows)
    /\ cache = NoCache
    /\ loads = 0
    /\ data_df = Unset
    /\ min_year = Unset /\ max_year = Unset
    /\ countries = Unset /\ poes = Unset
    /\ from_year = Unset /\ to_year = Unset
    /\ picked_countries = Unset /\ picked_poes = Unset
    /\ selected_countries = Unset /\ selected_poes = Unset
    /\ filtered_data_df = Unset
    /\ summary = Unset /\ no_data = Unset /\ trend = Unset
    /\ data_for_map = Unset /\ total_arrivals_by_poe = Unset /\ monthly_arrivals = Unset
    /\ pc = "start"
    /\ interactions = 0

\* lines 34-95 with the widgets returning (yr, cs, ps); a script run starts in a
\* fresh namespace, so nothing below line 95 is assigned yet
RunToFilter(useDefaults) ==
    LET hit == CacheHit(cache)
        df == IF hit THEN cache ELSE get_data
        lo == MinYear(df)
        hi == MaxYear(df)
        copts == CountryOptions(df)
        popts == PoeOptions(df)
    IN  /\ cache' = df
        /\ loads' = IF hit THEN loads ELSE loads + 1
        /\ data_df' = df
        /\ min_year' = lo /\ max_year' = hi
        /\ countries' = copts /\ poes' = popts
        /\ \E yr \in SliderValues(lo, hi),
              cs \in MultiselectValues(copts),
              ps \in MultiselectValues(popts) :
              /\ useDefaults =>
                    /\ yr = <<lo, hi>>
                    /\ cs = Range(Tail(copts))
                    /\ ps = Range(Tail(popts))
              /\ from_year' = yr[1] /\ to_year' = yr[2]
              /\ picked_countries' = cs /\ picked_poes' = ps
              /\ selected_countries' = Resolve(cs, copts)
              /\ selected_poes' = Resolve(ps, popts)
              /\ filtered_data_df' =
                    [columns |-> DataColumns,
                     rows |-> FilterRows(df, yr[1], yr[2],
                                         Resolve(cs, copts), Resolve(ps, popts))]
        /\ summary' = Unset /\ no_data' = Unset /\ trend' = Unset
        /\ data_for_map' = Unset /\ total_arrivals_by_poe' = Unset
        /\ monthly_arrivals' = Unset
        /\ pc' = "filtered"
        /\ UNCHANGED files

\* the first run of the session: every widget returns its default
FirstRun ==
    /\ pc = "start"
    /\ RunToFilter(TRUE)
    /\ UNCHANGED interactions

\* a re-run after the user changed a widget
Rerun ==
    /\ pc = "rendered"
    /\ interactions < MaxInteractions
    /\ RunToFilter(FALSE)
    /\ interactions' = interactions + 1

\* lines 97-158
Render ==
    /\ pc = "filtered"
    /\ summary' = Summary(filtered_data_df.rows, to_year)
    /\ no_data' = (DOMAIN Summary(filtered_data_df.rows, to_year) = {})
    /\ trend' = Trend(filtered_data_df.rows)
    /\ data_for_map' = MapPoints(filtered_data_df.rows)
    /\ total_arrivals_by_poe' = TotalByPoe(filtered_data_df.rows)
    /\ filtered_data_df' = WithMonth(filtered_data_df)
    /\ monthly_arrivals' = Monthly(WithMonth(filtered_data_df).rows)
    /\ pc' = "rendered"
    /\ UNCHANGED <<files, loader, widgets, interactions>>

Next == FirstRun \/ Rerun \/ Render

Spec == Init /\ [][Next]_vars

(* ------------------- the filter engine on its own ---------------------- *)
\* lines 89-95 as a function of (data_df, from_year, to_year, selected_countries,
\* selected_poes): the year pair is any pair of years, ordered or not
YearsOfDates == {d[1] : d \in Dates}

InitFilter ==
    /\ arrivals_csv \in SeqsUpTo(ArrivalRecord, MaxRecords) \ {<<>>}
    /\ poe_csv \in SeqsUpTo(PoeMetadata, MaxPoeRows)
    /\ cache = get_data
    /\ loads = 1
    /\ data_df = get_data
    /\ min_year = MinYear(get_data) /\ max_year = MaxYear(get_data)
    /\ countries = CountryOptions(get_data) /\ poes = PoeOptions(get_data)
    /\ from_year \in YearsOfDates /\ to_year \in YearsOfDates
    /\ picked_countries \in SUBSET Countries
    /\ picked_poes = Range(Tail(PoeOptions(get_data)))
    /\ selected_countries = picked_countries /\ selected_poes = picked_poes
    /\ filtered_data_df = Unset
    /\ summary = Unset /\ no_data = Unset /\ trend = Unset
    /\ data_for_map = Unset /\ total_arrivals_by_poe = Unset /\ monthly_arrivals = Unset
    /\ pc = "selected"
    /\ interactions = 0

\* lines 89-95
FilterStep ==
    /\ pc = "selected"
    /\ filtered_data_df' =
          [columns |-> DataColumns,
           rows |-> FilterRows(data_df, from_year, to_year,
                               selected_countries, selected_poes)]
    /\ pc' = "filtered"
    /\ UNCHANGED <<files, loader, widgets, views, interactions>>

NextFilter == FilterStep \/ Render

SpecFilter == InitFilter /\ [][NextFilter]_vars

(* ------------------------ properties: helpers -------------------------- *)
Count(rows, Test(_)) == Cardinality({i \in 1..Len(rows) : Test(rows[i])})

\* the sum of the arrivals of the rows that pass Test, by prefix sums
Total(rows, Test(_)) ==
    LET ps[k \in 0..Len(rows)] ==
            IF k = 0 THEN 0
            ELSE ps[k - 1] + (IF Test(rows[k]) THEN rows[k].arrivals ELSE 0)
    IN  ps[Len(rows)]

ArrivalKey(a) == <<to_datetime(a.date), a.poe, a.country, a.arrivals>>
JoinedKey(j) == <<j.date, j.poe, j.country, j.arrivals>>

InSelection(r) ==
    /\ from_year <= r.year /\ r.year <= to_year
    /\ r.country \in selected_countries
    /\ r.poe \in selected_poes

Kept == {i \in 1..Len(data_df) : InSelection(data_df[i])}

Filtered == filtered_data_df.rows

EmptyTable(t) == t.index = {} /\ t.columns = {} /\ DOMAIN t.cell = {}

AllViewsEmpty ==
    /\ no_data = TRUE
    /\ DOMAIN summary = {}
    /\ EmptyTable(trend)
    /\ data_for_map = <<>>
    /\ EmptyTable(total_arrivals_by_poe)
    /\ EmptyTable(monthly_arrivals)

(* ------------------------------ C1 ------------------------------------- *)
\* C1 (join totality): every arrival record has exactly one joined record with its
\* (date, poe, country, arrivals), whatever the POE table holds, and the lat/long of
\* that record are absent when no POE row has its poe.
C1_JoinTotality ==
    data_df # Unset =>
        \A i \in 1..Len(arrivals_csv) :
            LET a == arrivals_csv[i] IN
            /\ Count(data_df, LAMBDA j : JoinedKey(j) = ArrivalKey(a))
                  = Count(arrivals_csv, LAMBDA b : ArrivalKey(b) = ArrivalKey(a))
            /\ (\A k \in 1..Len(poe_csv) : poe_csv[k].poe # a.poe) =>
                  \A k \in 1..Len(data_df) :
                      JoinedKey(data_df[k]) = ArrivalKey(a) =>
                          data_df[k].lat = NaN /\ data_df[k].long = NaN

(* ------------------------------ C2 ------------------------------------- *)
\* C2 (filter): the filtered view holds exactly the joined records whose year is in
\* [from_year, to_year] (both ends included), whose country is selected and whose
\* poe is selected, each once and in the order of the joined dataset.
C2_FilterExact ==
    pc = "filtered" =>
        /\ Len(Filtered) = Cardinality(Kept)
        /\ \A i \in Kept : Filtered[Cardinality({j \in Kept : j <= i})] = data_df[i]

C2_Witness ==
    /\ pc = "filtered"
    /\ from_year = to_year
    /\ Len(Filtered) >= 1
    /\ Len(Filtered) < Len(data_df)
    /\ \E i \in 1..Len(data_df) : data_df[i].year # to_year

(* ------------------------------ C3 ------------------------------------- *)
DistinctCountries == {data_df[i].country : i \in 1..Len(data_df)}
DistinctPoes == {data_df[i].poe : i \in 1..Len(data_df)}

\* C3 (select-all equivalence): with "Select All" among the picked countries the
\* filtered view equals the one for every distinct country of the loaded dataset,
\* likewise for POEs; the expansion is the distinct set of the loaded dataset.
C3_SelectAllEquivalence ==
    pc = "filtered" =>
        /\ SelectAll \in picked_countries =>
              /\ selected_countries = DistinctCountries
              /\ Filtered = FilterRows(data_df, from_year, to_year,
                                       DistinctCountries, selected_poes)
        /\ SelectAll \in picked_poes =>
              /\ selected_poes = DistinctPoes
              /\ Filtered = FilterRows(data_df, from_year, to_year,
                                       selected_countries, DistinctPoes)
        /\ data_df = get_data

C3_Witness ==
    /\ pc = "filtered"
    /\ interactions = 1
    /\ picked_countries = {SelectAll}
    /\ Cardinality(DistinctCountries) = 2
    /\ Len(Filtered) = 2

C5_EmptySelection ==
    (pc \in {"filtered", "rendered"} /\ (selected_countries = {} \/ selected_poes = {})) =>
        /\ Filtered = <<>>
        /\ pc = "rendered" => AllViewsEmpty

C5_Witness ==
    /\ pc = "rendered"
    /\ selected_countries = {}
    /\ selected_poes = DistinctPoes
    /\ from_year = min_year /\ to_year = max_year
    /\ AllViewsEmpty

(* ------------------------------ C6 ------------------------------------- *)
\* C6 (sum conservation): the yearly totals have one entry for exactly the countries
\* with a filtered record in to_year, each entry is the sum of that country's
\* arrivals in to_year, and the entries add up to the arrivals of all filtered
\* records of to_year.
C6_SumConservation ==
    pc = "rendered" =>
        /\ DOMAIN summary =
              {Filtered[i].country : i \in {k \in 1..Len(Filtered) : Filtered[k].year = to_year}}
        /\ \A c \in DOMAIN summary :
              summary[c] = Total(Filtered, LAMBDA r : r.year = to_year /\ r.country = c)
        /\ Total(Filtered, LAMBDA r : r.year = to_year /\ r.country \in DOMAIN summary)
              = Total(Filtered, LAMBDA r : r.year = to_year)
        /\ no_data = (DOMAIN summary = {})

C6_Witness ==
    /\ pc = "rendered"
    /\ Len(Filtered) = 2
    /\ \E c \in DOMAIN summary : summary[c] = 0
    /\ \E i \in 1..Len(Filtered) : Filtered[i].year # to_year

(* ------------------------------ C7 ------------------------------------- *)
\* C7 (load-once cache): the body of get_data runs on the first call only; from
\* then on every run gets the cached frame, so the joined dataset, min/max year and
\* both option lists are the same in every interaction.
C7_LoadOnce ==
    [][ /\ loads' <= 1
        /\ pc # "start" =>
              /\ loads' = loads
              /\ cache' = cache /\ data_df' = data_df /\ data_df' = cache'
              /\ min_year' = min_year /\ max_year' = max_year
              /\ countries' = countries /\ poes' = poes ]_vars

C7_Witness ==
    /\ pc = "rendered"
    /\ interactions = 1
    /\ loads = 1
    /\ data_df = cache

(* ------------------------------ C8 ------------------------------------- *)
\* C8 (no in-place mutation): once the filtered view is built, computing the
\* aggregation views changes neither its rows nor its columns, nor the joined
\* dataset.
C8_NoMutation ==
    [][ (pc = "filtered" /\ pc' = "rendered") =>
            (filtered_data_df' = filtered_data_df /\ data_df' = data_df) ]_vars

(* ------------------------------ C9 ------------------------------------- *)
\* C9 (year-range clamp): the pair handed to the filter satisfies
\* min_year <= from_year <= to_year <= max_year, min_year and max_year being the
\* least and greatest year of the joined dataset, and before any user input the
\* pair is (min_year, max_year).
C9_YearRangeClamp ==
    pc \in {"filtered", "rendered"} =>
        /\ min_year <= from_year /\ from_year <= to_year /\ to_year <= max_year
        /\ \E i \in 1..Len(data_df) : data_df[i].year = min_year
        /\ \E i \in 1..Len(data_df) : data_df[i].year = max_year
        /\ \A i \in 1..Len(data_df) : min_year <= data_df[i].year /\ data_df[i].year <= max_year
        /\ interactions = 0 => (from_year = min_year /\ to_year = max_year)

C9_Witness ==
    /\ pc = "filtered"
    /\ interactions = 1
    /\ min_year < max_year
    /\ from_year = max_year /\ to_year = max_year

(* ------------------------------ C10 ------------------------------------ *)
\* C10 (arrival trend): the trend table has one row per year and one column per
\* country of the filtered view; a cell holds the sum of the arrivals of the
\* filtered records of that year and country when there is one, and is absent
\* otherwise, so that a sum of 0 differs from a missing combination.
C10_TrendTable ==
    pc = "rendered" =>
        /\ trend.index = {Filtered[i].year : i \in 1..Len(Filtered)}
        /\ trend.columns = {Filtered[i].country : i \in 1..Len(Filtered)}
        /\ DOMAIN trend.cell = trend.index \X trend.columns
        /\ \A y \in trend.index, c \in trend.columns :
              IF \E i \in 1..Len(Filtered) : Filtered[i].year = y /\ Filtered[i].country = c
              THEN trend.cell[<<y, c>>]
                     = Present(Total(Filtered, LAMBDA r : r.year = y /\ r.country = c))
              ELSE trend.cell[<<y, c>>] = NaN /\ trend.cell[<<y, c>>] # Present(0)

C10_Witness ==
    /\ pc = "rendered"
    /\ \E p \in DOMAIN trend.cell : trend.cell[p] = NaN
    /\ \E p \in DOMAIN trend.cell : trend.cell[p] = Present(0)

====
